---- MODULE Spec2Model ----
(***************************************************************************)
(* The EvidenceRegistry contract (blockchain/contracts/EvidenceRegistry.sol)*)
(* as a state machine: the contract's storage and event log, the block the  *)
(* chain is currently building, the transactions waiting to be included,    *)
(* and the receipts of the transactions the chain has executed.             *)
(*                                                                          *)
(* A transaction is executed atomically by the EVM: registerEvidence either *)
(* runs to its return, or reverts and leaves storage and the log untouched. *)
(* Callers submit transactions concurrently; the chain picks the order in   *)
(* which it includes them, and several may go into one block.               *)
(***************************************************************************)
EXTENDS Integers, Sequences, FiniteSets, TLC

\* ------------------------------------------------------------------ bounds
\* Transactions submitted in one behaviour.
MaxTxs == 3
\* Blocks the chain builds in one behaviour, the deployment block included.
MaxBlocks == 2
\* Number and timestamp of the block in which the contract was deployed.
DeployBlock == 1
DeployTime == 10
\* Reconciliation attempts a pending local record gets before it is flagged.
MaxAttempts == 2
\* Longest evidence the FingerprintComputer is given, in bytes, and the
\* number of computations followed.
MaxBytes == 1
MaxComputations == 2
\* Presses of the Acknowledge button followed on the incident detail screen.
MaxAckRequests == 5
\* Presses of Register, and navigations, followed on the registration screen.
MaxRegisterPresses == 2
MaxNavigations == 2
\* loginUser calls followed across the web and the mobile API services.
MaxLoginCalls == 2
\* WebSocket objects the incident provider creates in one behaviour.
MaxSockets == 11
\* Seconds between a block and its parent: a block's timestamp is strictly
\* greater than its parent's by the chain's consensus rule.
BlockInterval == 1
\* Transactions submitted in one behaviour when the EVM's run of
\* registerEvidence is followed statement by statement.
MaxStepTxs == 2

\* ------------------------------------------------------------ value domains
\* bytes32(0), the default of a bytes32 slot and what the tests call the
\* "zeroed bytes32" placeholder.
ZeroHash == 0
\* Evidence hashes callers pass: the all-zero hash and another.
Hashes == {ZeroHash, 1}
\* Metadata strings callers pass: the empty string and another.
Metadata == {"", "metadata1"}
\* address(0), the default of an address slot.
ZeroAddress == "0x0"
\* Externally owned accounts that send transactions.
Accounts == {"addr1", "addr2"}
\* The hash of a sealed block: the keccak256 digest of its header, which
\* holds the block's number and timestamp. Taken as collision-free and
\* non-zero: distinct headers give distinct digests, none of them bytes32(0).
HeaderHash(number, timestamp) == 1000 + 100 * number + timestamp

\* What getItem gives for a key that is not stored.
Null == "null"
\* The localStorage keys the web front end reads and writes.
WebKeys == {"accessToken", "refreshToken", "userToken", "userRole"}
\* The AsyncStorage keys the mobile loginUser reads and writes.
MobileKeys == {"viewerToken", "securityToken", "adminToken", "userToken"}

AlreadyRegisteredMsg == "Evidence already registered."
NotFoundMsg == "Evidence not found."

VARIABLES
    registeredEvidence,     \* mapping(bytes32 => Evidence)
    isEvidenceRegistered,   \* mapping(bytes32 => bool)
    events,                 \* the EvidenceRegistered events emitted, in order
    blockNumber,            \* block.number of the block being built
    blockTimestamp,         \* block.timestamp of the block being built
    blockHashes,            \* blockHashes[n + 1]: hash of sealed block n
    pending,                \* transactions submitted and not yet executed
    receipts,               \* results of the executed transactions, in order
    lastVerify,             \* result of the most recent verifyEvidence call
    inflight,               \* the registerEvidence transaction the EVM is running
    reachable,              \* the RegistrationClient can reach the ledger
    localStore,             \* local fallback store: fingerprint -> local record
    attempted,              \* fingerprints the client has itself attempted
    submitting,             \* fingerprint -> the submit call running on it
    reconciling,            \* fingerprint -> reconciler runs acting on it
    outcome,                \* fingerprint -> what the last submit of it returned
    computed,               \* the fingerprint computations made so far
    incident,               \* IncidentDetailScreen: the incident it shows
    ackInFlight,            \* acknowledgeIncident calls awaiting their response
    ackLog,                 \* results of the acknowledgeIncident calls, in order
    alert,                  \* the last Alert.alert shown
    form,                   \* RegistrationScreen: name, email, password, role
    registerInFlight,       \* registerUser calls awaiting their response
    registerCalls,          \* number of registerUser calls made
    navigated,              \* routes passed to navigation.navigate, in order
    registerAlert,          \* title of the last Alert.alert of the screen
    localStorage,           \* the browser's localStorage: key -> value
    asyncStorage,           \* the mobile app's AsyncStorage: key -> value
    loginInFlight,          \* loginUser calls awaiting the server's response
    loginReturned,          \* number of loginUser calls that have returned
    loginReturn,            \* what the last loginUser call returned
    effect,                 \* IncidentProvider: "initial", "mounted", "cleaned"
    effectRuns,             \* number of runs of the provider's effect
    sockets,                \* the WebSocket objects created, in order
    reconnectTimeout,       \* the ref: "null", or "pending", "fired", "cleared"
    strayTimers,            \* pending reconnect timers the ref no longer names
    retryCount,             \* retryCount.current
    isConnected,            \* the provider's isConnected state
    isAuthenticated,        \* AuthProvider: isAuthenticated
    user,                   \* AuthProvider: user
    loading,                \* AuthProvider: loading
    loginPending,           \* AuthProvider: a login request awaits its response
    expired,                \* access tokens whose exp lies in the past
    location                \* the path the router shows

\* The contract, the chain and its callers.
ledgerVars == <<registeredEvidence, isEvidenceRegistered, events, blockNumber,
                blockTimestamp, blockHashes, pending, receipts, lastVerify>>

\* The RegistrationClient, its fallback store and its reconciler.
clientVars == <<reachable, localStore, attempted, submitting, reconciling,
                outcome>>

\* The FingerprintComputer's callers.
fingerprintVars == <<computed>>

\* The mobile app's incident detail screen.
incidentVars == <<incident, ackInFlight, ackLog, alert>>

\* The mobile app's registration screen.
registrationVars == <<form, registerInFlight, registerCalls, navigated,
                      registerAlert>>

\* The loginUser helpers of the web and the mobile API services.
loginVars == <<localStorage, asyncStorage, loginInFlight, loginReturned,
               loginReturn>>

\* The web and mobile front ends.
\* The incident WebSocket provider of the web front end.
socketVars == <<effect, effectRuns, sockets, reconnectTimeout, strayTimers,
                retryCount, isConnected>>

\* The web front end's AuthProvider and router.
authVars == <<isAuthenticated, user, loading, loginPending, expired,
              location>>

frontVars == <<loginVars, socketVars, authVars>>

\* What a step of the chain with atomic transactions leaves alone.
notLedger == <<inflight, clientVars, fingerprintVars, incidentVars,
               registrationVars, frontVars>>
\* What a statement of a running registerEvidence leaves alone.
notSteps == <<clientVars, fingerprintVars, incidentVars, registrationVars,
              frontVars>>
\* What a step of the RegistrationClient leaves alone.
notClient == <<pending, receipts, lastVerify, inflight, fingerprintVars,
               incidentVars, registrationVars, frontVars>>
\* What a fingerprint computation leaves alone.
notFingerprint == <<ledgerVars, inflight, clientVars, incidentVars,
                    registrationVars, frontVars>>
\* What the incident detail screen leaves alone.
notIncident == <<ledgerVars, inflight, clientVars, fingerprintVars,
                 registrationVars, frontVars>>
\* What the registration screen leaves alone.
notRegistration == <<ledgerVars, inflight, clientVars, fingerprintVars,
                     incidentVars, frontVars>>
\* What a loginUser call leaves alone.
notLogin == <<ledgerVars, inflight, clientVars, fingerprintVars,
              incidentVars, registrationVars, socketVars, authVars>>
\* What the incident WebSocket provider leaves alone.
notSocket == <<ledgerVars, inflight, clientVars, fingerprintVars,
               incidentVars, registrationVars, loginVars, authVars>>
\* What the AuthProvider and the router leave alone.
notAuth == <<ledgerVars, inflight, clientVars, fingerprintVars,
             incidentVars, registrationVars, asyncStorage, loginInFlight,
             loginReturned, loginReturn, socketVars>>

vars == <<ledgerVars, notLedger>>

\* ------------------------------------------------------------ the contract
\* struct Evidence with every field at its default value: what a mapping
\* holds for a key that was never written.
DefaultEvidence ==
    [evidenceHash |-> ZeroHash, metadata |-> "", owner |-> ZeroAddress,
     timestamp |-> 0, blockNumber |-> 0, transactionHash |-> ZeroHash]

\* The EVM's BLOCKHASH: the hash of one of the 256 most recent sealed
\* blocks, zero for any other block number.
blockhash(n) ==
    IF n >= 0 /\ n < blockNumber /\ n >= blockNumber - 256
    THEN blockHashes[n + 1]
    ELSE ZeroHash

\* Mutant: the call validates its input and refuses the all-zero hash.
RegisterRequire_RejectsZeroHash(_evidenceHash) ==
    ~isEvidenceRegistered[_evidenceHash] /\ _evidenceHash # ZeroHash

\* Mutant: the require is missing, so every call passes.
RegisterRequire_Missing(_evidenceHash) == TRUE

\* require(!isEvidenceRegistered[_evidenceHash], ...)
RegisterRequire(_evidenceHash) == ~isEvidenceRegistered[_evidenceHash]

\* bytes32 txHash = blockhash(block.number - 1)
TxHashPlaceholder == blockhash(blockNumber - 1)

\* Mutant: the time is left at its default.
NewEvidence_NoTimestamp(_evidenceHash, _metadata, sender) ==
    [evidenceHash |-> _evidenceHash, metadata |-> _metadata, owner |-> sender,
     timestamp |-> 0, blockNumber |-> blockNumber,
     transactionHash |-> TxHashPlaceholder]

\* Mutant: the record is stored under a key that is not its hash.
NewEvidence_WrongHash(_evidenceHash, _metadata, sender) ==
    [evidenceHash |-> _evidenceHash + 1, metadata |-> _metadata,
     owner |-> sender, timestamp |-> blockTimestamp,
     blockNumber |-> blockNumber, transactionHash |-> TxHashPlaceholder]

\* Mutant: the position is left at its default.
NewEvidence_NoPosition(_evidenceHash, _metadata, sender) ==
    [evidenceHash |-> _evidenceHash, metadata |-> _metadata, owner |-> sender,
     timestamp |-> blockTimestamp, blockNumber |-> 0,
     transactionHash |-> TxHashPlaceholder]

\* Mutant: block.number and block.timestamp are passed in each other's place.
NewEvidence_SwappedFields(_evidenceHash, _metadata, sender) ==
    [evidenceHash |-> _evidenceHash, metadata |-> _metadata, owner |-> sender,
     timestamp |-> blockNumber, blockNumber |-> blockTimestamp,
     transactionHash |-> TxHashPlaceholder]

\* Evidence(_evidenceHash, _metadata, msg.sender, block.timestamp,
\*          block.number, txHash)
NewEvidence(_evidenceHash, _metadata, sender) ==
    [evidenceHash |-> _evidenceHash, metadata |-> _metadata, owner |-> sender,
     timestamp |-> blockTimestamp, blockNumber |-> blockNumber,
     transactionHash |-> TxHashPlaceholder]

\* An event that reports the block number where the record has the time.
NewEvent_WrongTimestamp(_evidenceHash, _metadata, sender) ==
    [evidenceHash |-> _evidenceHash, owner |-> sender, timestamp |-> blockNumber,
     metadata |-> _metadata, transactionHash |-> TxHashPlaceholder]

\* emit EvidenceRegistered(_evidenceHash, msg.sender, block.timestamp,
\*                         _metadata, txHash)
NewEvent(_evidenceHash, _metadata, sender) ==
    [evidenceHash |-> _evidenceHash, owner |-> sender,
     timestamp |-> blockTimestamp, metadata |-> _metadata,
     transactionHash |-> TxHashPlaceholder]

\* Mutant: a successful call marks every hash as registered.
registerEvidence_FlagsEveryHash(_evidenceHash, _metadata, sender) ==
    IF ~RegisterRequire(_evidenceHash)
    THEN [reverted |-> TRUE, reason |-> AlreadyRegisteredMsg,
          registeredEvidence |-> registeredEvidence,
          isEvidenceRegistered |-> isEvidenceRegistered,
          events |-> events]
    ELSE [reverted |-> FALSE, reason |-> "",
          registeredEvidence |->
              [registeredEvidence EXCEPT ![_evidenceHash] =
                  NewEvidence(_evidenceHash, _metadata, sender)],
          isEvidenceRegistered |-> [h \in Hashes |-> TRUE],
          events |-> Append(events, NewEvent(_evidenceHash, _metadata, sender))]

\* Mutant: the record is stored before the check, and the check returns
\* instead of reverting, so a rejected call has already overwritten the record.
registerEvidence_StoreBeforeCheck(_evidenceHash, _metadata, sender) ==
    [reverted |-> ~RegisterRequire(_evidenceHash),
     reason |-> IF RegisterRequire(_evidenceHash) THEN "" ELSE AlreadyRegisteredMsg,
     registeredEvidence |->
         [registeredEvidence EXCEPT ![_evidenceHash] =
             NewEvidence(_evidenceHash, _metadata, sender)],
     isEvidenceRegistered |->
         [isEvidenceRegistered EXCEPT ![_evidenceHash] = TRUE],
     events |-> IF RegisterRequire(_evidenceHash)
                THEN Append(events, NewEvent(_evidenceHash, _metadata, sender))
                ELSE events]

\* Mutant: isEvidenceRegistered[_evidenceHash] = true is missing.
registerEvidence_FlagNotSet(_evidenceHash, _metadata, sender) ==
    IF ~RegisterRequire(_evidenceHash)
    THEN [reverted |-> TRUE, reason |-> AlreadyRegisteredMsg,
          registeredEvidence |-> registeredEvidence,
          isEvidenceRegistered |-> isEvidenceRegistered,
          events |-> events]
    ELSE [reverted |-> FALSE, reason |-> "",
          registeredEvidence |->
              [registeredEvidence EXCEPT ![_evidenceHash] =
                  NewEvidence(_evidenceHash, _metadata, sender)],
          isEvidenceRegistered |-> isEvidenceRegistered,
          events |-> Append(events, NewEvent(_evidenceHash, _metadata, sender))]

\* registerEvidence as the EVM runs it: the outcome of the call and the
\* storage and log it leaves. A revert leaves both as they were.
registerEvidence(_evidenceHash, _metadata, sender) ==
    IF ~RegisterRequire(_evidenceHash)
    THEN [reverted |-> TRUE, reason |-> AlreadyRegisteredMsg,
          registeredEvidence |-> registeredEvidence,
          isEvidenceRegistered |-> isEvidenceRegistered,
          events |-> events]
    ELSE [reverted |-> FALSE, reason |-> "",
          registeredEvidence |->
              [registeredEvidence EXCEPT ![_evidenceHash] =
                  NewEvidence(_evidenceHash, _metadata, sender)],
          isEvidenceRegistered |->
              [isEvidenceRegistered EXCEPT ![_evidenceHash] = TRUE],
          events |-> Append(events, NewEvent(_evidenceHash, _metadata, sender))]

\* Mutant: the record is read under the wrong key.
verifyEvidence_WrongKey(_evidenceHash) ==
    IF ~isEvidenceRegistered[_evidenceHash]
    THEN [reverted |-> TRUE, reason |-> NotFoundMsg]
    ELSE [reverted |-> FALSE, reason |-> "", ret |-> registeredEvidence[ZeroHash]]

\* Mutant: the require is missing, so an unregistered hash returns the
\* mapping's default record.
verifyEvidence_NoRequire(_evidenceHash) ==
    [reverted |-> FALSE, reason |-> "", ret |-> registeredEvidence[_evidenceHash]]

\* verifyEvidence: the six fields of the stored record (ret), or a revert,
\* which returns nothing.
verifyEvidence(_evidenceHash) ==
    IF ~isEvidenceRegistered[_evidenceHash]
    THEN [reverted |-> TRUE, reason |-> NotFoundMsg]
    ELSE [reverted |-> FALSE, reason |-> "",
          ret |-> registeredEvidence[_evidenceHash]]

\* --------------------------------------------------------------- the chain
Init ==
    /\ registeredEvidence = [h \in Hashes |-> DefaultEvidence]
    /\ isEvidenceRegistered = [h \in Hashes |-> FALSE]
    /\ events = <<>>
    /\ blockNumber = DeployBlock
    /\ blockTimestamp = DeployTime
    /\ blockHashes = [i \in 1..DeployBlock |->
           HeaderHash(i - 1, DeployTime - (DeployBlock - (i - 1)) * BlockInterval)]
    /\ pending = {}
    /\ receipts = <<>>
    /\ lastVerify = [called |-> FALSE]
    /\ inflight = [active |-> FALSE]
    /\ reachable = TRUE
    /\ localStore = [h \in Hashes |-> [state |-> "absent", metadata |-> "",
                                       attempts |-> 0, position |-> 0]]
    /\ attempted = {}
    /\ submitting = [h \in Hashes |-> [active |-> FALSE]]
    /\ reconciling = [h \in Hashes |-> {}]
    /\ outcome = [h \in Hashes |-> [kind |-> "none", answer |-> "none"]]
    /\ computed = {}
    /\ incident = [open |-> FALSE]
    /\ ackInFlight = 0
    /\ ackLog = <<>>
    /\ alert = <<>>
    /\ form = [mounted |-> FALSE]
    /\ registerInFlight = <<>>
    /\ registerCalls = 0
    /\ navigated = <<>>
    /\ registerAlert = ""
    /\ localStorage = [k \in WebKeys |-> Null]
    /\ asyncStorage = [k \in MobileKeys |-> Null]
    /\ loginInFlight = {}
    /\ loginReturned = 0
    /\ loginReturn = [app |-> "none"]
    /\ effect = "initial"
    /\ effectRuns = 0
    /\ sockets = <<>>
    /\ reconnectTimeout = "null"
    /\ strayTimers = 0
    /\ retryCount = 0
    /\ isConnected = FALSE
    /\ isAuthenticated = FALSE
    /\ user = [null |-> TRUE]
    /\ loading = TRUE
    /\ loginPending = FALSE
    /\ expired = {}
    /\ location = "/"

\* An account signs and broadcasts a registerEvidence transaction.
SubmitRegister(sender, h, m) ==
    /\ Len(receipts) + Cardinality(pending) < MaxTxs
    /\ [sender |-> sender, hash |-> h, metadata |-> m] \notin pending
    /\ pending' = pending \cup
           {[sender |-> sender, hash |-> h, metadata |-> m]}
    /\ UNCHANGED <<registeredEvidence, isEvidenceRegistered, events, blockNumber,
                   blockTimestamp, blockHashes, receipts, lastVerify>>

\* The other waiting transactions that register the same hash as tx: the
\* calls that race with it.
Rivals(tx) == Cardinality({t \in pending : t.hash = tx.hash /\ t # tx})

\* The chain includes a waiting transaction in the block it is building and
\* runs registerEvidence to its end.
ExecuteRegister(tx) ==
    LET r == registerEvidence(tx.hash, tx.metadata, tx.sender) IN
    /\ tx \in pending
    /\ pending' = pending \ {tx}
    /\ registeredEvidence' = r.registeredEvidence
    /\ isEvidenceRegistered' = r.isEvidenceRegistered
    /\ events' = r.events
    /\ receipts' = Append(receipts,
           [sender |-> tx.sender, hash |-> tx.hash,
            metadata |-> tx.metadata, reverted |-> r.reverted,
            reason |-> r.reason, blockNumber |-> blockNumber,
            blockTimestamp |-> blockTimestamp,
            rivals |-> IF r.reverted THEN 0 ELSE Rivals(tx)])
    /\ UNCHANGED <<blockNumber, blockTimestamp, blockHashes, lastVerify>>

\* Mutant: the function is not a view and stamps the record it reads.
VerifyEvidence_Touches(h) ==
    /\ lastVerify' = [called |-> TRUE, hash |-> h,
                      result |-> verifyEvidence(h)]
    /\ registeredEvidence' =
           [registeredEvidence EXCEPT ![h].timestamp = blockTimestamp]
    /\ UNCHANGED <<isEvidenceRegistered, events, blockNumber,
                   blockTimestamp, blockHashes, pending, receipts>>

\* A read-only call of verifyEvidence against the current state (the
\* function is a view: the EVM runs it without write access).
VerifyEvidence(h) ==
    /\ lastVerify' = [called |-> TRUE, hash |-> h,
                      result |-> verifyEvidence(h)]
    /\ UNCHANGED <<registeredEvidence, isEvidenceRegistered, events, blockNumber,
                   blockTimestamp, blockHashes, pending, receipts>>

\* The chain seals the block it was building and starts the next one.
MineBlock ==
    /\ blockNumber < DeployBlock + MaxBlocks - 1
    /\ blockHashes' = Append(blockHashes, HeaderHash(blockNumber, blockTimestamp))
    /\ blockNumber' = blockNumber + 1
    /\ blockTimestamp' = blockTimestamp + BlockInterval
    /\ UNCHANGED <<registeredEvidence, isEvidenceRegistered, events, pending,
                   receipts, lastVerify>>

Next ==
    \/ \E sender \in Accounts, h \in Hashes, m \in Metadata :
           SubmitRegister(sender, h, m) /\ UNCHANGED notLedger
    \/ \E tx \in pending : ExecuteRegister(tx) /\ UNCHANGED notLedger
    \/ \E h \in Hashes : VerifyEvidence(h) /\ UNCHANGED notLedger
    \/ MineBlock /\ UNCHANGED notLedger

Spec == Init /\ [][Next]_vars

\* ------------------------------------- registerEvidence, statement by statement
\* The EVM runs one transaction at a time and applies its storage writes and
\* logs to a journal that becomes the contract's state only when the call
\* returns; a call that runs out of gas on the way is reverted and its journal
\* is dropped.  inflight holds the running call, the statement it is about to
\* execute and its journal; the committed state is what eth_call reads.
Idle == [active |-> FALSE]

\* The transaction joins the pool (same as SubmitRegister, fewer of them).
SubmitStep(sender, h, m) ==
    /\ Len(receipts) + Cardinality(pending) + (IF inflight.active THEN 1 ELSE 0)
           < MaxStepTxs
    /\ SubmitRegister(sender, h, m)
    /\ UNCHANGED inflight

\* The receipt of the running call.
StepReceipt(tx, reverted, reason) ==
    [sender |-> tx.sender, hash |-> tx.hash, metadata |-> tx.metadata,
     reverted |-> reverted, reason |-> reason,
     blockNumber |-> blockNumber, blockTimestamp |-> blockTimestamp,
     rivals |-> IF reverted THEN 0 ELSE Rivals(tx)]

\* Line 26: the call starts and the require is evaluated; when it fails the
\* call reverts at once, otherwise the body runs on a fresh journal.
BeginRegister(tx) ==
    /\ ~inflight.active
    /\ tx \in pending
    /\ pending' = pending \ {tx}
    /\ IF ~RegisterRequire(tx.hash)
       THEN /\ receipts' = Append(receipts,
                                  StepReceipt(tx, TRUE, AlreadyRegisteredMsg))
            /\ UNCHANGED inflight
       ELSE /\ inflight' = [active |-> TRUE, tx |-> tx, pc |-> "store",
                            registeredEvidence |-> registeredEvidence,
                            isEvidenceRegistered |-> isEvidenceRegistered,
                            events |-> events]
            /\ UNCHANGED receipts
    /\ UNCHANGED <<registeredEvidence, isEvidenceRegistered, events,
                   blockNumber, blockTimestamp, blockHashes, lastVerify>>

\* Lines 32-39: the record is written.
StoreRecord ==
    /\ inflight.active /\ inflight.pc = "store"
    /\ inflight' =
          [inflight EXCEPT
              !.registeredEvidence[inflight.tx.hash] =
                  NewEvidence(inflight.tx.hash, inflight.tx.metadata,
                              inflight.tx.sender),
              !.pc = "flag"]
    /\ UNCHANGED ledgerVars

\* Line 40: the hash is flagged as registered.
SetFlag ==
    /\ inflight.active /\ inflight.pc = "flag"
    /\ inflight' = [inflight EXCEPT
                       !.isEvidenceRegistered[inflight.tx.hash] = TRUE,
                       !.pc = "emit"]
    /\ UNCHANGED ledgerVars

\* Line 42: the event is logged.
EmitEvent ==
    /\ inflight.active /\ inflight.pc = "emit"
    /\ inflight' =
          [inflight EXCEPT
              !.events = Append(@, NewEvent(inflight.tx.hash,
                                            inflight.tx.metadata,
                                            inflight.tx.sender)),
              !.pc = "return"]
    /\ UNCHANGED ledgerVars

\* Line 44: the call returns and its journal becomes the contract's state.
ReturnRegister ==
    /\ inflight.active /\ inflight.pc = "return"
    /\ registeredEvidence' = inflight.registeredEvidence
    /\ isEvidenceRegistered' = inflight.isEvidenceRegistered
    /\ events' = inflight.events
    /\ receipts' = Append(receipts, StepReceipt(inflight.tx, FALSE, ""))
    /\ inflight' = Idle
    /\ UNCHANGED <<blockNumber, blockTimestamp, blockHashes, pending,
                   lastVerify>>

\* An aborted call whose writes stay (what a ledger without rollback does).
AbortRegister_KeepsWrites ==
    /\ inflight.active
    /\ registeredEvidence' = inflight.registeredEvidence
    /\ isEvidenceRegistered' = inflight.isEvidenceRegistered
    /\ events' = inflight.events
    /\ receipts' = Append(receipts, StepReceipt(inflight.tx, TRUE, "out of gas"))
    /\ inflight' = Idle
    /\ UNCHANGED <<blockNumber, blockTimestamp, blockHashes, pending,
                   lastVerify>>

\* The call runs out of gas before it returns: it is reverted, the journal
\* is dropped and the contract's state is what it was before the call.
AbortRegister ==
    /\ inflight.active
    /\ receipts' = Append(receipts, StepReceipt(inflight.tx, TRUE, "out of gas"))
    /\ inflight' = Idle
    /\ UNCHANGED <<registeredEvidence, isEvidenceRegistered, events,
                   blockNumber, blockTimestamp, blockHashes, pending,
                   lastVerify>>

\* A block is sealed between transactions, never in the middle of one.
MineBetween ==
    /\ ~inflight.active
    /\ MineBlock
    /\ UNCHANGED inflight

NextSteps ==
    \/ \E sender \in Accounts, h \in Hashes, m \in Metadata :
           SubmitStep(sender, h, m) /\ UNCHANGED notSteps
    \/ \E tx \in pending : BeginRegister(tx) /\ UNCHANGED notSteps
    \/ StoreRecord /\ UNCHANGED notSteps
    \/ SetFlag /\ UNCHANGED notSteps
    \/ EmitEvent /\ UNCHANGED notSteps
    \/ ReturnRegister /\ UNCHANGED notSteps
    \/ AbortRegister /\ UNCHANGED notSteps
    \/ \E h \in Hashes : VerifyEvidence(h) /\ UNCHANGED <<inflight, notSteps>>
    \/ MineBetween /\ UNCHANGED notSteps

SpecSteps == Init /\ [][NextSteps]_vars

\* ------------------------------ RegistrationClient and VerificationService
\* The client registers through its own account; a fingerprint is the
\* bytes32 key it hands to registerEvidence.
ClientAccount == "addr1"
\* Another registrant that reaches the ledger on its own.
OtherAccount == "addr2"
\* The metadata the capture pipeline hands to submit, and the metadata the
\* other registrant registers with.
ClientMetadata == {"metadata1"}
OtherMetadata == {""}
\* Runs of the background reconciliation process that may overlap.
Reconcilers == {"run1", "run2"}

\* A fallback store that serialises nothing.
Free_Unlocked(h) == TRUE

\* Access to the fallback store is serialised per fingerprint: a submit or a
\* reconciler run acts on h only while nobody else does.
Free(h) == ~submitting[h].active /\ reconciling[h] = {}

\* What the client hears back from EvidenceLedger.register: nothing when the
\* ledger is unreachable or the response is lost on the way (timeout).
Answer(h, m, lost) ==
    IF ~reachable \/ lost THEN "LedgerUnavailable"
    ELSE IF registerEvidence(h, m, ClientAccount).reverted
         THEN "AlreadyRegistered"
         ELSE "Receipt"

\* The ledger runs a registerEvidence call that got through to it.
LedgerExecutes(h, m, sender) ==
    LET r == registerEvidence(h, m, sender)
    IN  /\ registeredEvidence' = r.registeredEvidence
        /\ isEvidenceRegistered' = r.isEvidenceRegistered
        /\ events' = r.events
        /\ UNCHANGED <<blockNumber, blockTimestamp, blockHashes>>

\* The ledger's record of h once the client's call has run.
RecordAfter(h, m) == registerEvidence(h, m, ClientAccount).registeredEvidence[h]

\* A record written to the fallback store by submit.
PendingRecord(m) ==
    [state |-> "pending", metadata |-> m, attempts |-> 0, position |-> 0]

\* The local record once the ledger has confirmed it at a position.
Anchor(rec, position) ==
    [rec EXCEPT !.state = "anchored", !.position = position]

\* A reconciler that drops a record whose attempts are used up.
AfterFailure_Drops(rec) ==
    IF rec.attempts + 1 >= MaxAttempts
    THEN [state |-> "absent", metadata |-> "", attempts |-> 0, position |-> 0]
    ELSE [rec EXCEPT !.attempts = @ + 1]

\* The local record after a reconciliation attempt that did not reach the
\* ledger: one more attempt is counted, and with the last one the record is
\* flagged for manual review.
AfterFailure(rec) ==
    [rec EXCEPT !.attempts = @ + 1,
                !.state = IF rec.attempts + 1 >= MaxAttempts
                          THEN "flagged" ELSE "pending"]

\* A client that takes no AlreadyRegistered for its own retry.
OwnRetry_Never(h) == FALSE

\* A client that takes every AlreadyRegistered for its own retry.
OwnRetry_Always(h) == TRUE

\* AlreadyRegistered answers a retry of the client's own when the client has
\* attempted the fingerprint before.
OwnRetry(h) == h \in attempted

\* submit(evidence_bytes, metadata, registrant) is called: the fingerprint is
\* computed and the call takes the fingerprint's turn on the fallback store.
submit(h, m) ==
    /\ Free(h)
    /\ submitting' = [submitting EXCEPT ![h] = [active |-> TRUE, metadata |-> m]]
    /\ UNCHANGED <<registeredEvidence, isEvidenceRegistered, events,
                   blockNumber, blockTimestamp, blockHashes,
                   reachable, localStore, attempted, reconciling, outcome,
                   notClient>>

\* A submit that answers an unreachable ledger without the fallback write.
submitReturn_NoFallback(h, lost) ==
    /\ submitting[h].active
    /\ lost => reachable
    /\ LET m == submitting[h].metadata
           a == Answer(h, m, lost)
           rec == RecordAfter(h, m)
       IN  /\ IF reachable
              THEN LedgerExecutes(h, m, ClientAccount)
              ELSE UNCHANGED <<registeredEvidence, isEvidenceRegistered, events,
                               blockNumber, blockTimestamp, blockHashes>>
           /\ IF a = "LedgerUnavailable"
              THEN /\ UNCHANGED localStore
                   /\ attempted' = attempted \cup {h}
                   /\ outcome' = [outcome EXCEPT
                                     ![h] = [kind |-> "PendingLocal", answer |-> a]]
              ELSE IF a = "Receipt" \/ OwnRetry(h)
              THEN /\ localStore' =
                         [localStore EXCEPT
                             ![h] = IF @.state = "absent" THEN @
                                    ELSE Anchor(@, rec.blockNumber)]
                   /\ attempted' = attempted \cup {h}
                   /\ outcome' = [outcome EXCEPT
                                     ![h] = [kind |-> "Anchored", answer |-> a]]
              ELSE /\ UNCHANGED <<localStore, attempted>>
                   /\ outcome' = [outcome EXCEPT
                                     ![h] = [kind |-> "Rejected", answer |-> a]]
    /\ reachable' = (reachable /\ ~lost)
    /\ submitting' = [submitting EXCEPT ![h] = [active |-> FALSE]]
    /\ UNCHANGED <<reconciling, notClient>>

\* submit calls EvidenceLedger.register and returns its Outcome.  Without an
\* answer (LedgerUnavailable) the record goes to the fallback store and the
\* outcome is PendingLocal; a receipt, or AlreadyRegistered for a retry of
\* the client's own, is Anchored; any other AlreadyRegistered is a collision,
\* surfaced as Rejected.
submitReturn(h, lost) ==
    /\ submitting[h].active
    /\ lost => reachable
    /\ LET m == submitting[h].metadata
           a == Answer(h, m, lost)
           rec == RecordAfter(h, m)
       IN  /\ IF reachable
              THEN LedgerExecutes(h, m, ClientAccount)
              ELSE UNCHANGED <<registeredEvidence, isEvidenceRegistered, events,
                               blockNumber, blockTimestamp, blockHashes>>
           /\ IF a = "LedgerUnavailable"
              THEN /\ localStore' = [localStore EXCEPT ![h] = PendingRecord(m)]
                   /\ attempted' = attempted \cup {h}
                   /\ outcome' = [outcome EXCEPT
                                     ![h] = [kind |-> "PendingLocal", answer |-> a]]
              ELSE IF a = "Receipt" \/ OwnRetry(h)
              THEN /\ localStore' =
                         [localStore EXCEPT
                             ![h] = IF @.state = "absent" THEN @
                                    ELSE Anchor(@, rec.blockNumber)]
                   /\ attempted' = attempted \cup {h}
                   /\ outcome' = [outcome EXCEPT
                                     ![h] = [kind |-> "Anchored", answer |-> a]]
              ELSE /\ UNCHANGED <<localStore, attempted>>
                   /\ outcome' = [outcome EXCEPT
                                     ![h] = [kind |-> "Rejected", answer |-> a]]
    /\ reachable' = (reachable /\ ~lost)
    /\ submitting' = [submitting EXCEPT ![h] = [active |-> FALSE]]
    /\ UNCHANGED <<reconciling, notClient>>

\* A run of the reconciler picks a pending record when the fingerprint is free.
reconcileBegin(h, w) ==
    /\ localStore[h].state = "pending"
    /\ w \notin reconciling[h]
    /\ Free(h)
    /\ reconciling' = [reconciling EXCEPT ![h] = @ \cup {w}]
    /\ UNCHANGED <<registeredEvidence, isEvidenceRegistered, events,
                   blockNumber, blockTimestamp, blockHashes,
                   reachable, localStore, attempted, submitting, outcome,
                   notClient>>

\* The run replays the record against the ledger.  A receipt, or
\* AlreadyRegistered for a fingerprint the client attempted, anchors the
\* record at the position the ledger reports, unless the ledger reports
\* another fingerprint back (CorruptReceipt: flagged); without an answer the
\* attempt is counted.
reconcile(h, w, lost) ==
    /\ w \in reconciling[h]
    /\ lost => reachable
    /\ LET loc == localStore[h]
           a == Answer(h, loc.metadata, lost)
           rec == RecordAfter(h, loc.metadata)
       IN  /\ IF reachable
              THEN LedgerExecutes(h, loc.metadata, ClientAccount)
              ELSE UNCHANGED <<registeredEvidence, isEvidenceRegistered, events,
                               blockNumber, blockTimestamp, blockHashes>>
           /\ localStore' =
                 [localStore EXCEPT
                     ![h] = IF a = "LedgerUnavailable" THEN AfterFailure(loc)
                            ELSE IF (a = "Receipt" \/ OwnRetry(h))
                                    /\ rec.evidenceHash = h
                                 THEN Anchor(loc, rec.blockNumber)
                                 ELSE [loc EXCEPT !.state = "flagged"]]
    /\ reachable' = (reachable /\ ~lost)
    /\ reconciling' = [reconciling EXCEPT ![h] = @ \ {w}]
    /\ UNCHANGED <<attempted, submitting, outcome, notClient>>

\* Another registrant registers a fingerprint that is not on the ledger yet.
OtherRegisters(h, m) ==
    /\ ~isEvidenceRegistered[h]
    /\ LedgerExecutes(h, m, OtherAccount)
    /\ UNCHANGED <<clientVars, notClient>>

\* The connection to the ledger goes down, and comes back.
LedgerOutage ==
    /\ reachable
    /\ reachable' = FALSE
    /\ UNCHANGED <<registeredEvidence, isEvidenceRegistered, events,
                   blockNumber, blockTimestamp, blockHashes,
                   localStore, attempted, submitting, reconciling, outcome,
                   notClient>>

LedgerRecovers ==
    /\ ~reachable
    /\ reachable' = TRUE
    /\ UNCHANGED <<registeredEvidence, isEvidenceRegistered, events,
                   blockNumber, blockTimestamp, blockHashes,
                   localStore, attempted, submitting, reconciling, outcome,
                   notClient>>

\* VerificationService.verify: the ledger's record when the ledger can be
\* reached and has one, else the fallback store's record, provisional until
\* it is anchored.
verify(h) ==
    LET l == verifyEvidence(h)
        loc == localStore[h]
    IN  IF reachable /\ ~l.reverted
        THEN [found |-> TRUE, fingerprint |-> h, metadata |-> l.ret.metadata,
              registrant |-> l.ret.owner, registered_at |-> l.ret.timestamp,
              position |-> l.ret.blockNumber, provisional |-> FALSE]
        ELSE IF loc.state = "absent"
        THEN [found |-> FALSE]
        ELSE [found |-> TRUE, fingerprint |-> h, metadata |-> loc.metadata,
              registrant |-> ClientAccount, registered_at |-> 0,
              position |-> loc.position,
              provisional |-> loc.state # "anchored"]

NextClient ==
    \/ \E h \in Hashes, m \in ClientMetadata : submit(h, m)
    \/ \E h \in Hashes, lost \in BOOLEAN : submitReturn(h, lost)
    \/ \E h \in Hashes, w \in Reconcilers : reconcileBegin(h, w)
    \/ \E h \in Hashes, w \in Reconcilers, lost \in BOOLEAN : reconcile(h, w, lost)
    \/ \E h \in Hashes, m \in OtherMetadata : OtherRegisters(h, m)
    \/ LedgerOutage
    \/ LedgerRecovers

SpecClient == Init /\ [][NextClient]_vars

\* The reconciler runs in the background for as long as the client lives,
\* and a call that was started returns (submit bounds its wait by a timeout).
FairSpecClient ==
    /\ SpecClient
    /\ \A h \in Hashes :
          /\ WF_vars(\E lost \in BOOLEAN : submitReturn(h, lost))
          /\ WF_vars(\E w \in Reconcilers : reconcileBegin(h, w))
          /\ WF_vars(\E w \in Reconcilers, lost \in BOOLEAN : reconcile(h, w, lost))

\* ------------------------------------------------------ FingerprintComputer
\* Evidence is a string of bytes; metadata is a list of (key, value) fields
\* in the order the caller happened to write them, each key at most once.
Bytes == {0, 1}
MetadataKeys == {"camera_id", "incident_id"}
MetadataValues == {1, 2}

RECURSIVE SeqsUpTo(_, _)
SeqsUpTo(S, n) ==
    IF n = 0 THEN {<<>>}
    ELSE LET shorter == SeqsUpTo(S, n - 1)
         IN  shorter \cup {Append(q, x) : q \in shorter, x \in S}

EvidenceInputs == SeqsUpTo(Bytes, MaxBytes)

MetadataInputs ==
    {md \in SeqsUpTo(MetadataKeys \X MetadataValues, Cardinality(MetadataKeys)) :
        \A i, j \in 1..Len(md) : i # j => md[i][1] # md[j][1]}

\* The fields of a metadata document, whatever their order.
Fields(md) == {md[i] : i \in 1..Len(md)}

\* Byte-wise order of the keys.
KeyCode(k) == IF k = "camera_id" THEN 1 ELSE 2

\* A canonicalisation that keeps the caller's order.
canonicalize_KeepOrder(md) == md

\* Canonical metadata: the fields sorted by key.
RECURSIVE canonicalize(_)
canonicalize(md) ==
    IF md = <<>> THEN <<>>
    ELSE LET least == CHOOSE i \in 1..Len(md) :
                          \A j \in 1..Len(md) : KeyCode(md[i][1]) <= KeyCode(md[j][1])
             rest == [k \in 1..(Len(md) - 1) |->
                          IF k < least THEN md[k] ELSE md[k + 1]]
         IN  <<md[least]>> \o canonicalize(rest)

\* The symbols the digest runs over: the bytes, a separator, then key and
\* value of each canonical field.
RECURSIVE Encode(_)
Encode(md) ==
    IF md = <<>> THEN <<>>
    ELSE <<KeyCode(md[1][1]), md[1][2]>> \o Encode(Tail(md))

Separator == 2
\* One more than the number of symbols.
DigestBase == 4

\* The digest: collision-free on the inputs followed here.
RECURSIVE Digest(_)
Digest(symbols) ==
    IF symbols = <<>> THEN 1
    ELSE (Digest(SubSeq(symbols, 1, Len(symbols) - 1)) * DigestBase
             + symbols[Len(symbols)] + 1)

InvalidInput == [error |-> "InvalidInput"]

\* fingerprint(evidence_bytes, metadata) -> Digest, InvalidInput for empty
\* evidence.
fingerprint(evidence_bytes, metadata) ==
    IF evidence_bytes = <<>> THEN InvalidInput
    ELSE [digest |-> Digest(evidence_bytes \o <<Separator>>
                                \o Encode(canonicalize(metadata)))]

\* A caller computes the fingerprint of some evidence and metadata.
Compute(evidence_bytes, metadata) ==
    /\ Cardinality(computed) < MaxComputations
    /\ computed' = computed \cup
          {[evidence_bytes |-> evidence_bytes, metadata |-> metadata,
            result |-> fingerprint(evidence_bytes, metadata)]}
    /\ UNCHANGED notFingerprint

\* The caller forgets the computations it made.
Forget ==
    /\ computed # {}
    /\ computed' = {}
    /\ UNCHANGED notFingerprint

NextFingerprint ==
    \/ \E evidence_bytes \in EvidenceInputs, metadata \in MetadataInputs :
           Compute(evidence_bytes, metadata)
    \/ Forget

SpecFingerprint == Init /\ [][NextFingerprint]_vars

\* ---------------------------------------------------- IncidentDetailScreen
\* The incidents of the dashboard and the statuses they arrive with.
IncidentIds == {1, 3}
RouteStatuses == {"pending", "acknowledged"}

\* The screen is opened on an incident handed over in route.params.
OpenIncidentDetail(id, status) ==
    /\ ~incident.open
    /\ incident' = [open |-> TRUE, id |-> id, status |-> status]
    /\ UNCHANGED <<ackInFlight, ackLog, alert, notIncident>>

\* A screen that offers the button whatever the status.
ButtonOffered_Always == incident.open

\* The AcknowledgeButton is rendered unless the incident is acknowledged.
ButtonOffered == incident.open /\ incident.status # "acknowledged"

\* The user presses the button: acknowledgeIncident(incidentId) is called.
PressAcknowledge ==
    /\ ButtonOffered
    /\ ackInFlight + Len(ackLog) < MaxAckRequests
    /\ ackInFlight' = ackInFlight + 1
    /\ UNCHANGED <<incident, ackLog, alert, notIncident>>

\* handleAcknowledgeSuccess: the status is updated locally.
handleAcknowledgeSuccess(prev) == [prev EXCEPT !.status = "acknowledged"]

\* acknowledgeIncident resolves with success: the button calls
\* onAcknowledgeSuccess.
AcknowledgeSucceeds ==
    /\ ackInFlight > 0
    /\ ackInFlight' = ackInFlight - 1
    /\ ackLog' = Append(ackLog, "success")
    /\ incident' = handleAcknowledgeSuccess(incident)
    /\ alert' = <<"Update", "Incident status updated locally.">>
    /\ UNCHANGED notIncident

\* acknowledgeIncident resolves with success: false: the button shows the
\* error and does not call onAcknowledgeSuccess.
AcknowledgeFails ==
    /\ ackInFlight > 0
    /\ ackInFlight' = ackInFlight - 1
    /\ ackLog' = Append(ackLog, "failure")
    /\ alert' = <<"Error", "Failed to acknowledge">>
    /\ UNCHANGED <<incident, notIncident>>

NextIncident ==
    \/ \E id \in IncidentIds, status \in RouteStatuses :
           OpenIncidentDetail(id, status)
    \/ PressAcknowledge
    \/ AcknowledgeSucceeds
    \/ AcknowledgeFails

SpecIncident == Init /\ [][NextIncident]_vars

\* ------------------------------------------------------ RegistrationScreen
\* The file holds the screen with and without the Admin option.
Versions == {"SecurityViewer", "SecurityViewerAdmin"}
RolesOffered(version) ==
    IF version = "SecurityViewer" THEN {"security", "viewer"}
    ELSE {"security", "viewer", "admin"}
\* What the user types into a field: nothing, or something.
TextValues == {"", "text"}
LoginScreens == {"SecurityLogin", "ViewerLogin", "AdminLogin"}

\* The screen is rendered: empty fields, role 'viewer'.
MountRegistration(version) ==
    /\ ~form.mounted
    /\ form' = [mounted |-> TRUE, version |-> version, name |-> "",
                email |-> "", password |-> "", role |-> "viewer"]
    /\ UNCHANGED <<registerInFlight, registerCalls, navigated, registerAlert,
                   notRegistration>>

setName(text) ==
    /\ form.mounted
    /\ form' = [form EXCEPT !.name = text]
    /\ UNCHANGED <<registerInFlight, registerCalls, navigated, registerAlert,
                   notRegistration>>

setEmail(text) ==
    /\ form.mounted
    /\ form' = [form EXCEPT !.email = text]
    /\ UNCHANGED <<registerInFlight, registerCalls, navigated, registerAlert,
                   notRegistration>>

setPassword(text) ==
    /\ form.mounted
    /\ form' = [form EXCEPT !.password = text]
    /\ UNCHANGED <<registerInFlight, registerCalls, navigated, registerAlert,
                   notRegistration>>

setRole(r) ==
    /\ form.mounted
    /\ r \in RolesOffered(form.version)
    /\ form' = [form EXCEPT !.role = r]
    /\ UNCHANGED <<registerInFlight, registerCalls, navigated, registerAlert,
                   notRegistration>>

\* !name || !email || !password || !role
EmptyField == form.name = "" \/ form.email = "" \/ form.password = "" \/ form.role = ""

\* A redirect that sends everybody to the viewer login.
LoginScreenFor_AlwaysViewer(version, r) == "ViewerLogin"

\* The login screen handleRegister redirects to.
LoginScreenFor(version, r) ==
    IF version = "SecurityViewer"
    THEN IF r = "security" THEN "SecurityLogin" ELSE "ViewerLogin"
    ELSE IF r = "security" THEN "SecurityLogin"
         ELSE IF r = "viewer" THEN "ViewerLogin"
         ELSE IF r = "admin" THEN "AdminLogin"
         ELSE "none"

\* handleRegister up to its await: with an empty field it alerts and
\* returns, else it calls registerUser(name, email, password, role).
handleRegister ==
    /\ form.mounted
    /\ IF EmptyField
       THEN /\ registerAlert' = "Error"
            /\ UNCHANGED <<registerInFlight, registerCalls>>
       ELSE /\ registerCalls < MaxRegisterPresses
            /\ registerInFlight' = Append(registerInFlight, form.role)
            /\ registerCalls' = registerCalls + 1
            /\ UNCHANGED registerAlert
    /\ UNCHANGED <<form, navigated, notRegistration>>

\* The sequence without its i-th element.
Without(q, i) == SubSeq(q, 1, i - 1) \o SubSeq(q, i + 1, Len(q))

\* handleRegister after its await: the i-th call resolves with success or
\* not, or rejects; the role is the one the handler was called with.
registerUserSettles(i, response) ==
    /\ i \in 1..Len(registerInFlight)
    /\ registerInFlight' = Without(registerInFlight, i)
    /\ LET target == LoginScreenFor(form.version, registerInFlight[i])
       IN  IF response = "success"
           THEN /\ registerAlert' = "Success"
                /\ navigated' = IF target = "none" THEN navigated
                                ELSE Append(navigated, target)
           ELSE /\ registerAlert' = IF response = "failure"
                                    THEN "Registration Failed" ELSE "Error"
                /\ UNCHANGED navigated
    /\ UNCHANGED <<form, registerCalls, notRegistration>>

\* The links under the form lead to the login screens.
PressLoginLink(route) ==
    /\ form.mounted
    /\ Len(navigated) < MaxNavigations
    /\ navigated' = Append(navigated, route)
    /\ UNCHANGED <<form, registerInFlight, registerCalls, registerAlert,
                   notRegistration>>

NextRegistration ==
    \/ \E version \in Versions : MountRegistration(version)
    \/ \E text \in TextValues : setName(text)
    \/ \E text \in TextValues : setEmail(text)
    \/ \E text \in TextValues : setPassword(text)
    \/ \E r \in {"security", "viewer", "admin"} : setRole(r)
    \/ handleRegister
    \/ \E i \in 1..MaxRegisterPresses,
          response \in {"success", "failure", "rejected"} :
           registerUserSettles(i, response)
    \/ \E route \in LoginScreens : PressLoginLink(route)

SpecRegistration == Init /\ [][NextRegistration]_vars

\* ------------------------------------------------- reading the receipt log
\* Positions in the receipt log of the registrations the ledger accepted.
Successes == {i \in 1..Len(receipts) : ~receipts[i].reverted}
\* ... and of those that registered hash h.
SuccessFor(h) == {i \in Successes : receipts[i].hash = h}
\* Positions in the receipt log of every call that named hash h.
CallsFor(h) == {i \in 1..Len(receipts) : receipts[i].hash = h}
\* The step executes the waiting transaction tx.
Executes(tx) ==
    /\ tx \in pending
    /\ pending' = pending \ {tx}
    /\ Len(receipts') = Len(receipts) + 1
\* The receipt the step appended.
NewReceipt == receipts'[Len(receipts')]
\* The complete record the registration behind receipt rc writes.
RecordOf(rc) ==
    [evidenceHash |-> rc.hash, metadata |-> rc.metadata, owner |-> rc.sender,
     timestamp |-> rc.blockTimestamp, blockNumber |-> rc.blockNumber,
     transactionHash |-> blockHashes[rc.blockNumber]]
\* The highest position (blockNumber) held by a record of the ledger.
HighestPosition ==
    LET ps == {registeredEvidence[h].blockNumber :
                   h \in {x \in Hashes : isEvidenceRegistered[x]}}
    IN IF ps = {} THEN 0 ELSE CHOOSE p \in ps : \A q \in ps : q <= p

\* ---------------------------------------------------------------------- C1
\* C1: a registerEvidence for a hash that is already registered, by any
\* caller and with any metadata, reverts with 'Evidence already registered.'
\* and changes nothing: both mappings and the event log are as before, and
\* so is the highest position held by the ledger.
C1_ReRegisterFails ==
    [][\A tx \in pending :
          (Executes(tx) /\ isEvidenceRegistered[tx.hash]) =>
              /\ NewReceipt.reverted
              /\ NewReceipt.reason = AlreadyRegisteredMsg
              /\ registeredEvidence' = registeredEvidence
              /\ isEvidenceRegistered' = isEvidenceRegistered
              /\ events' = events
              /\ HighestPosition' = HighestPosition]_vars

\* A second call for a registered hash, from another account and with other
\* metadata, was rejected, and the record is still the first caller's.
C1_Witness ==
    \E i \in Successes, j \in 1..Len(receipts) :
        /\ i < j
        /\ receipts[j].hash = receipts[i].hash
        /\ receipts[j].sender # receipts[i].sender
        /\ receipts[j].metadata # receipts[i].metadata
        /\ receipts[j].reverted
        /\ receipts[j].reason = AlreadyRegisteredMsg
        /\ registeredEvidence[receipts[i].hash].owner = receipts[i].sender
        /\ registeredEvidence[receipts[i].hash].metadata = receipts[i].metadata

\* ---------------------------------------------------------------------- C2
\* C2: once a hash is registered it stays registered and its record (all six
\* fields) never changes, whatever step the system takes.
C2_RegisteredIsTerminal ==
    [][\A h \in Hashes :
          isEvidenceRegistered[h] =>
              /\ isEvidenceRegistered'[h]
              /\ registeredEvidence'[h] = registeredEvidence[h]]_vars

\* A registered hash has lived through a rejected re-registration, the
\* registration of another hash, a sealed block and a verify call.
C2_Witness ==
    \E h \in Hashes :
        /\ isEvidenceRegistered[h]
        /\ \E i \in SuccessFor(h), j \in CallsFor(h), k \in Successes :
               i < j /\ i < k /\ receipts[k].hash # h
        /\ blockNumber > registeredEvidence[h].blockNumber
        /\ lastVerify.called

\* ---------------------------------------------------------------------- C3
\* C3: of the calls that named one hash, in whatever order the chain ran
\* them, exactly one succeeded and every other one reverted with 'Evidence
\* already registered.'; the hash has one record, the winner's, at the
\* winner's position, and one event.
C3_ExactlyOneWinner ==
    \A h \in Hashes :
        CallsFor(h) # {} =>
            /\ Cardinality(SuccessFor(h)) = 1
            /\ \A i \in CallsFor(h) \ SuccessFor(h) :
                   receipts[i].reverted /\ receipts[i].reason = AlreadyRegisteredMsg
            /\ isEvidenceRegistered[h]
            /\ \A i \in SuccessFor(h) :
                   /\ registeredEvidence[h].owner = receipts[i].sender
                   /\ registeredEvidence[h].metadata = receipts[i].metadata
                   /\ registeredEvidence[h].blockNumber = receipts[i].blockNumber
            /\ Cardinality({k \in 1..Len(events) : events[k].evidenceHash = h}) = 1

\* Three calls for one hash, from more than one account, were all waiting
\* when the chain ran the first of them, and all three have been run.
C3_Witness ==
    \E h \in Hashes :
        /\ Cardinality(CallsFor(h)) = 3
        /\ Cardinality({receipts[i].sender : i \in CallsFor(h)}) > 1
        /\ \E i \in SuccessFor(h) : receipts[i].rivals = 2
        /\ \A t \in pending : t.hash # h

\* ---------------------------------------------------------------------- C4
\* C4: after a successful registerEvidence(h, m) by r, verifyEvidence(h)
\* returns, in every later state, a record with evidenceHash h, metadata m
\* and owner r; and a record that a verifyEvidence call returned is the one
\* of a successful registration of the hash asked for.
C4_VerifyReturnsRegistered ==
    /\ \A i \in Successes :
           LET v == verifyEvidence(receipts[i].hash) IN
           /\ ~v.reverted
           /\ v.ret.evidenceHash = receipts[i].hash
           /\ v.ret.metadata = receipts[i].metadata
           /\ v.ret.owner = receipts[i].sender
    /\ (lastVerify.called /\ ~lastVerify.result.reverted) =>
           \E i \in SuccessFor(lastVerify.hash) :
               /\ lastVerify.result.ret.evidenceHash = receipts[i].hash
               /\ lastVerify.result.ret.metadata = receipts[i].metadata
               /\ lastVerify.result.ret.owner = receipts[i].sender

\* A verify call returned the record of a non-zero hash registered with
\* non-empty metadata, and other calls have run besides that registration.
C4_Witness ==
    /\ lastVerify.called
    /\ ~lastVerify.result.reverted
    /\ lastVerify.hash # ZeroHash
    /\ lastVerify.result.ret.metadata # ""
    /\ Len(receipts) = 3
    /\ Cardinality(Successes) = 2

\* ---------------------------------------------------------------------- C5
\* C5 as stated: of any two accepted registrations the earlier one holds the
\* strictly smaller position, so no two records share a position.
C5_StrictlyIncreasing ==
    \A i, j \in Successes :
        i < j => registeredEvidence[receipts[i].hash].blockNumber
                     < registeredEvidence[receipts[j].hash].blockNumber

\* C5 as amended: positions never decrease in acceptance order, and two
\* records share a position exactly when the ledger accepted them in the
\* same block; registrations accepted in different blocks have strictly
\* increasing positions.
C5_PositionsFollowBlocks ==
    \A i, j \in Successes :
        i < j =>
            LET pi == registeredEvidence[receipts[i].hash].blockNumber
                pj == registeredEvidence[receipts[j].hash].blockNumber
            IN /\ pi <= pj
               /\ (pi = pj) <=> (receipts[i].blockNumber = receipts[j].blockNumber)

\* Two registrations were accepted in different blocks, and the earlier one
\* holds the smaller position.
C5_Witness ==
    \E i, j \in Successes :
        /\ i < j
        /\ receipts[i].blockNumber < receipts[j].blockNumber
        /\ registeredEvidence[receipts[i].hash].blockNumber
               < registeredEvidence[receipts[j].hash].blockNumber

\* ---------------------------------------------------------------------- C6
\* C6: verifyEvidence of a hash that no call has registered reverts with
\* 'Evidence not found.' and returns no record, whatever else is registered.
C6_VerifyUnregisteredFails ==
    \A h \in Hashes :
        SuccessFor(h) = {} =>
            /\ verifyEvidence(h).reverted
            /\ verifyEvidence(h).reason = NotFoundMsg
            /\ "ret" \notin DOMAIN verifyEvidence(h)
            /\ (lastVerify.called /\ lastVerify.hash = h) =>
                   /\ lastVerify.result.reverted
                   /\ lastVerify.result.reason = NotFoundMsg
                   /\ "ret" \notin DOMAIN lastVerify.result

\* A verify call for a hash never registered failed while the other hash
\* was registered.
C6_Witness ==
    /\ lastVerify.called
    /\ SuccessFor(lastVerify.hash) = {}
    /\ CallsFor(lastVerify.hash) = {}
    /\ lastVerify.result.reverted
    /\ \E h \in Hashes : h # lastVerify.hash /\ isEvidenceRegistered[h]

\* ---------------------------------------------------------------------- C7
\* C7: the owner of a record is the account that sent the accepted
\* registration, its timestamp and blockNumber are those of the block that
\* included it, and the hash and metadata arguments have no influence on
\* the three: any two calls by one account in one state would store the
\* same owner, timestamp and blockNumber.
C7_LedgerAssignsFields ==
    /\ \A i \in Successes :
           /\ registeredEvidence[receipts[i].hash].owner = receipts[i].sender
           /\ registeredEvidence[receipts[i].hash].timestamp = receipts[i].blockTimestamp
           /\ registeredEvidence[receipts[i].hash].blockNumber = receipts[i].blockNumber
    /\ \A a \in Accounts, h1, h2 \in Hashes, m1, m2 \in Metadata :
           LET r1 == registerEvidence(h1, m1, a)
               r2 == registerEvidence(h2, m2, a)
           IN (~r1.reverted /\ ~r2.reverted) =>
                  /\ r1.registeredEvidence[h1].owner = a
                  /\ r2.registeredEvidence[h2].owner = a
                  /\ r1.registeredEvidence[h1].timestamp = blockTimestamp
                  /\ r2.registeredEvidence[h2].timestamp = blockTimestamp
                  /\ r1.registeredEvidence[h1].blockNumber = blockNumber
                  /\ r2.registeredEvidence[h2].blockNumber = blockNumber

\* Two accounts registered in two different blocks, and each record carries
\* its own sender and block.
C7_Witness ==
    \E i, j \in Successes :
        /\ receipts[i].sender # receipts[j].sender
        /\ receipts[i].blockNumber # receipts[j].blockNumber
        /\ registeredEvidence[receipts[i].hash].owner = receipts[i].sender
        /\ registeredEvidence[receipts[j].hash].timestamp = receipts[j].blockTimestamp

\* ---------------------------------------------------------------------- C8
\* C8: the transactionHash of a record identifies its registration: two
\* distinct records carry different values, and no record carries the
\* identifier of an earlier block.
C8_TxHashIdentifiesRegistration ==
    /\ \A h1, h2 \in Hashes :
           (h1 # h2 /\ isEvidenceRegistered[h1] /\ isEvidenceRegistered[h2]) =>
               registeredEvidence[h1].transactionHash
                   # registeredEvidence[h2].transactionHash
    /\ \A h \in Hashes :
           isEvidenceRegistered[h] =>
               \A n \in 0..(registeredEvidence[h].blockNumber - 1) :
                   registeredEvidence[h].transactionHash # blockHashes[n + 1]

\* ---------------------------------------------------------------------- C9
\* C9: the transactionHash verifyEvidence returns for a registered hash, and
\* the one in the EvidenceRegistered event, is the all-zero value.
C9_TxHashIsZero ==
    /\ \A h \in Hashes :
           isEvidenceRegistered[h] =>
               verifyEvidence(h).ret.transactionHash = ZeroHash
    /\ \A k \in 1..Len(events) : events[k].transactionHash = ZeroHash

\* --------------------------------------------------------------------- C10
\* C10: a verifyEvidence call, whether it returns a record or fails, leaves
\* both mappings and the event log as they were.
C10_VerifyIsReadOnly ==
    [][(lastVerify' # lastVerify) =>
          /\ registeredEvidence' = registeredEvidence
          /\ isEvidenceRegistered' = isEvidenceRegistered
          /\ events' = events]_vars

\* A verify call returned a record while the ledger held two records and
\* two events.
C10_Witness ==
    /\ lastVerify.called
    /\ ~lastVerify.result.reverted
    /\ \A h \in Hashes : isEvidenceRegistered[h]
    /\ Len(events) = 2

\* --------------------------------------------------------------------- C11
\* C11: verifyEvidence never returns a partially written record.  In every
\* state, also one between two statements of a running registerEvidence or
\* after an aborted one, a verifyEvidence of any hash either reverts or
\* returns the complete record written by one registration that returned;
\* the same holds of the result the last caller got.
C11_VerifyNeverPartial ==
    /\ \A h \in Hashes :
          LET r == verifyEvidence(h)
          IN  r.reverted \/ \E i \in SuccessFor(h) : r.ret = RecordOf(receipts[i])
    /\ lastVerify.called =>
          \/ lastVerify.result.reverted
          \/ \E i \in SuccessFor(lastVerify.hash) :
                 lastVerify.result.ret = RecordOf(receipts[i])

\* A registration has written its record but not yet its flag, a caller has
\* just been told that hash is not found, and an earlier call for another
\* hash was aborted.
C11_Witness ==
    /\ inflight.active
    /\ inflight.pc = "flag"
    /\ inflight.registeredEvidence[inflight.tx.hash] # DefaultEvidence
    /\ lastVerify.called
    /\ lastVerify.hash = inflight.tx.hash
    /\ lastVerify.result.reverted
    /\ \E i \in 1..Len(receipts) : receipts[i].reason = "out of gas"

\* --------------------------------------------------------------------- C12
\* C12: every registerEvidence that succeeds emits exactly one
\* EvidenceRegistered event, whose evidenceHash, owner, timestamp, metadata
\* and transactionHash equal the fields of the record it stored; a rejected
\* call emits none.  So the event log has one event per registered hash, as
\* many events as registered hashes and as accepted calls.
EventMatchesRecord(e, rec) ==
    /\ e.evidenceHash = rec.evidenceHash
    /\ e.owner = rec.owner
    /\ e.timestamp = rec.timestamp
    /\ e.metadata = rec.metadata
    /\ e.transactionHash = rec.transactionHash

C12_OneEventPerRegistration ==
    /\ [](/\ Len(events) = Cardinality({h \in Hashes : isEvidenceRegistered[h]})
          /\ Len(events) = Cardinality(Successes)
          /\ \A h \in Hashes :
                isEvidenceRegistered[h] =>
                    /\ Cardinality({k \in 1..Len(events) :
                                       events[k].evidenceHash = h}) = 1
                    /\ \A k \in 1..Len(events) :
                          events[k].evidenceHash = h =>
                              EventMatchesRecord(events[k], registeredEvidence[h])
          /\ \A k \in 1..Len(events) :
                isEvidenceRegistered[events[k].evidenceHash])
    /\ [][\A tx \in pending :
             Executes(tx) =>
                 IF NewReceipt.reverted
                 THEN events' = events
                 ELSE /\ Len(events') = Len(events) + 1
                      /\ SubSeq(events', 1, Len(events)) = events
                      /\ EventMatchesRecord(events'[Len(events')],
                                            registeredEvidence'[tx.hash])]_vars

\* Two hashes are registered, by different accounts and in different blocks,
\* a third call was rejected, and the log holds two events.
C12_Witness ==
    /\ Len(events) = 2
    /\ events[1].owner # events[2].owner
    /\ events[1].timestamp # events[2].timestamp
    /\ \E i \in 1..Len(receipts) : receipts[i].reverted

\* --------------------------------------------------------------------- C13
\* The step is the return of the submit call running on fingerprint h.
SubmitReturns(h) == submitting[h].active /\ ~submitting'[h].active

\* C13: when the ledger is unreachable (the call does not get through, or
\* its answer does not come back), submit writes the record to the local
\* fallback store and returns PendingLocal, and a verify called right after
\* it returns that record with provisional = true.
C13_FallbackIsProvisional ==
    [][\A h \in Hashes :
          (SubmitReturns(h) /\ ~reachable') =>
              /\ localStore'[h] = PendingRecord(submitting[h].metadata)
              /\ outcome'[h].kind = "PendingLocal"
              /\ \A g \in Hashes \ {h} : outcome'[g] = outcome[g]
              /\ verify(h)'.found
              /\ verify(h)'.provisional
              /\ verify(h)'.fingerprint = h
              /\ verify(h)'.metadata = submitting[h].metadata]_vars

\* submit has returned PendingLocal during an outage for a fingerprint that
\* the other registrant holds on the ledger, and verify answers from the
\* fallback store.
C13_Witness ==
    \E h \in Hashes :
        /\ outcome[h].kind = "PendingLocal"
        /\ ~reachable
        /\ isEvidenceRegistered[h]
        /\ registeredEvidence[h].owner = OtherAccount
        /\ localStore[h].state = "pending"
        /\ localStore[h].attempts = 0
        /\ verify(h).provisional
        /\ verify(h).registrant = ClientAccount

ReconcileReturns(h) ==
    reconciling'[h] # reconciling[h] /\ reconciling'[h] \subseteq reconciling[h]

\* The step is a call of the client that the ledger answers with
\* AlreadyRegistered.
AnsweredAlreadyRegistered(h) ==
    /\ SubmitReturns(h) \/ ReconcileReturns(h)
    /\ reachable /\ reachable'
    /\ isEvidenceRegistered[h]

\* C15: AlreadyRegistered counts as success when it answers the client's own
\* retry of a request the ledger had accepted from it (submit returns
\* Anchored, the reconciler anchors the local record); AlreadyRegistered for
\* a fingerprint the client never submitted is returned as Rejected, a
\* result distinct from success, and leaves no trace of a success behind.
C15_RetryIsSuccessCollisionIsNot ==
    [][\A h \in Hashes :
          AnsweredAlreadyRegistered(h) =>
              /\ registeredEvidence[h].owner = ClientAccount =>
                    /\ h \in attempted
                    /\ SubmitReturns(h) =>
                          outcome'[h] = [kind |-> "Anchored",
                                         answer |-> "AlreadyRegistered"]
                    /\ ReconcileReturns(h) => localStore'[h].state = "anchored"
              /\ h \notin attempted =>
                    /\ SubmitReturns(h)
                    /\ outcome'[h] = [kind |-> "Rejected",
                                      answer |-> "AlreadyRegistered"]
                    /\ localStore' = localStore
                    /\ h \notin attempted']_vars

\* One fingerprint was rejected as a collision with the other registrant's
\* record, and the retry of another, registered by the client itself, came
\* back AlreadyRegistered and was returned as Anchored.
C15_Witness ==
    \E h, g \in Hashes :
        /\ outcome[h] = [kind |-> "Rejected", answer |-> "AlreadyRegistered"]
        /\ registeredEvidence[h].owner = OtherAccount
        /\ h \notin attempted
        /\ outcome[g] = [kind |-> "Anchored", answer |-> "AlreadyRegistered"]
        /\ registeredEvidence[g].owner = ClientAccount

\* --------------------------------------------------------------------- C16
\* C16: reconciliation stops after a bounded number of attempts and never
\* loses a record.  A local record is pending, anchored or flagged for
\* manual review and never leaves the store; the reconciler runs on pending
\* records only, a pending record has used fewer than the maximum number of
\* attempts, every attempt that does not reach the ledger is counted, and
\* the one that uses up the budget flags the record.
C16_BoundedAndNeverLost ==
    /\ [](\A h \in Hashes :
             /\ localStore[h].state \in {"absent", "pending", "anchored", "flagged"}
             /\ localStore[h].attempts <= MaxAttempts
             /\ localStore[h].state = "pending" =>
                    localStore[h].attempts < MaxAttempts
             /\ reconciling[h] # {} => localStore[h].state = "pending"
             /\ outcome[h].kind = "PendingLocal" => localStore[h].state # "absent")
    /\ [][\A h \in Hashes :
             /\ localStore[h].state # "absent" =>
                    localStore'[h].state \in {"pending", "anchored", "flagged"}
             /\ (ReconcileReturns(h) /\ ~reachable') =>
                    /\ localStore'[h].attempts = localStore[h].attempts + 1
                    /\ localStore'[h].state =
                          IF localStore'[h].attempts = MaxAttempts
                          THEN "flagged" ELSE "pending"]_vars

\* One record used up its attempts in an outage and is flagged, with no run
\* acting on it although the ledger is reachable again; another has been
\* anchored after a failed attempt.
C16_Witness ==
    \E h, g \in Hashes :
        /\ localStore[h].state = "flagged"
        /\ localStore[h].attempts = MaxAttempts
        /\ reconciling[h] = {}
        /\ reachable
        /\ localStore[g].state = "anchored"
        /\ localStore[g].attempts > 0

\* --------------------------------------------------------------------- C17
\* The submit calls and reconciler runs acting on fingerprint h.
ActingOn(h) ==
    (IF submitting[h].active THEN 1 ELSE 0) + Cardinality(reconciling[h])

\* C17: no record is reconciled twice concurrently, and at most one of
\* submit and the reconciler acts on a given fingerprint at any moment.
C17_OneActorPerFingerprint ==
    \A h \in Hashes :
        /\ Cardinality(reconciling[h]) <= 1
        /\ ActingOn(h) <= 1

\* A submit is running on a fingerprint whose record is pending, so that a
\* reconciler run has to wait for it, while a run acts on the other
\* fingerprint.
C17_Witness ==
    \E h, g \in Hashes :
        /\ h # g
        /\ submitting[h].active
        /\ localStore[h].state = "pending"
        /\ reconciling[g] # {}

\* --------------------------------------------------------------------- C18
\* C18: fingerprint is a deterministic function of its inputs.  Any two
\* computations over the same bytes and metadata with the same fields, in
\* whatever key order the fields were written, give the identical result.
C18_FingerprintDeterministic ==
    \A c, d \in computed :
        (c.evidence_bytes = d.evidence_bytes
            /\ Fields(c.metadata) = Fields(d.metadata))
        => c.result = d.result

\* The same evidence was fingerprinted with the same two fields written in
\* the two possible orders, and both computations gave a digest.
C18_Witness ==
    \E c, d \in computed :
        /\ c.evidence_bytes = d.evidence_bytes
        /\ c.metadata # d.metadata
        /\ Len(c.metadata) = 2
        /\ Fields(c.metadata) = Fields(d.metadata)
        /\ c.result # InvalidInput
        /\ c.result = d.result

LoginScreenOfRole(r) ==
    CASE r = "security" -> "SecurityLogin"
      [] r = "viewer" -> "ViewerLogin"
      [] r = "admin" -> "AdminLogin"

\* The step is the end of a registerUser call.
RegisterUserReturns == Len(registerInFlight') = Len(registerInFlight) - 1

Tokens == {"token1", "token2"}
\* Roles the login screens pass to loginUser.
LoginRoles == {"viewer", "security", "admin"}
\* The two API services that export loginUser.
Apps == {"web", "mobile"}
\* The detail field of an error body; "" when the body carries none.
Details == {"", "Invalid credentials"}

\* What the server, or the network, answers to POST /login. json tells
\* whether the body parsed as JSON, access_token is Null when the body holds
\* no token; status "network" is a request that got no response at all.
LoginResponses ==
    {[status |-> "ok", json |-> TRUE, access_token |-> t, detail |-> ""] :
        t \in Tokens \cup {Null}}
    \cup {[status |-> "error", json |-> TRUE, access_token |-> Null,
           detail |-> d] : d \in Details}
    \cup {[status |-> "error", json |-> FALSE, access_token |-> Null,
           detail |-> ""],
          [status |-> "network", json |-> FALSE, access_token |-> Null,
           detail |-> ""]}

\* The message the mobile service draws from a response body: the detail
\* when there is one, the body's JSON text when there is none, and a fixed
\* text when there is no body.
niceMessageFromResponse(data) ==
    IF ~data.json THEN "Request failed"
    ELSE IF data.detail # "" THEN data.detail
    ELSE IF data.access_token # Null THEN "{access_token}"
    ELSE "{}"

\* The message the web service draws from a rejected request.
webErrorMessage(response) ==
    IF response.status = "error" /\ response.json /\ response.detail # ""
    THEN response.detail
    ELSE "Login failed."

\* A variant that keeps the tokens of the earlier logins.
multiRemove_Nothing(storage, keys) == storage

\* AsyncStorage.multiRemove(keys).
multiRemove(storage, keys) ==
    [k \in DOMAIN storage |-> IF k \in keys THEN Null ELSE storage[k]]

\* The role-specific key the mobile loginUser saves the token under.
tokenKey(role) ==
    IF role = "security" THEN "securityToken"
    ELSE IF role = "viewer" THEN "viewerToken"
    ELSE IF role = "admin" THEN "adminToken"
    ELSE "userToken"

\* A variant that clears the old tokens before it looks at the response.
mobileLoginUser_ClearsOnError(role, response, storage) ==
    LET cleared == multiRemove(storage, {"viewerToken", "securityToken",
                                         "adminToken"})
    IN  IF response.status = "ok" /\ response.access_token # Null
        THEN [storage |-> [cleared EXCEPT
                              ![tokenKey(role)] = response.access_token,
                              !["userToken"] = response.access_token],
              success |-> TRUE,
              message |-> niceMessageFromResponse(response)]
        ELSE [storage |-> cleared, success |-> response.status = "ok",
              message |-> niceMessageFromResponse(response)]

\* loginUser of the web service, from the response to its return value.
webLoginUser(role, response, storage) ==
    IF response.status = "ok"
    THEN IF response.json /\ response.access_token # Null
         THEN [storage |-> [storage EXCEPT
                               !["userToken"] = response.access_token,
                               !["userRole"] = role],
               success |-> TRUE, message |-> ""]
         ELSE [storage |-> storage, success |-> FALSE,
               message |-> "No token received."]
    ELSE [storage |-> storage, success |-> FALSE,
          message |-> webErrorMessage(response)]

\* loginUser of the mobile service, from the response to its return value.
mobileLoginUser(role, response, storage) ==
    IF response.status = "network"
    THEN [storage |-> storage, success |-> FALSE,
          message |-> "Network error"]
    ELSE IF response.status # "ok"
    THEN [storage |-> storage, success |-> FALSE,
          message |-> niceMessageFromResponse(response)]
    ELSE IF response.json /\ response.access_token # Null
    THEN [storage |->
             [multiRemove(storage,
                          {"viewerToken", "securityToken", "adminToken",
                           "viewerUser", "securityUser"})
                 EXCEPT ![tokenKey(role)] = response.access_token,
                        !["userToken"] = response.access_token],
          success |-> TRUE,
          message |-> niceMessageFromResponse(response)]
    ELSE [storage |-> storage, success |-> TRUE,
          message |-> niceMessageFromResponse(response)]

\* The token authHeaders(role) puts in the Authorization header, Null when
\* it returns no header: the role's own key first, then the first key of the
\* fallback order that holds a token.
authHeaders(role, storage) ==
    LET own == IF role = Null THEN Null ELSE storage[tokenKey(role)]
    IN  IF own # Null THEN own
        ELSE IF storage["viewerToken"] # Null THEN storage["viewerToken"]
        ELSE IF storage["securityToken"] # Null THEN storage["securityToken"]
        ELSE IF storage["adminToken"] # Null THEN storage["adminToken"]
        ELSE storage["userToken"]

\* A login screen calls loginUser: the request is sent.
loginUserCall(app, role) ==
    /\ loginReturned + Cardinality(loginInFlight) < MaxLoginCalls
    /\ loginInFlight' = loginInFlight \cup
           {[id |-> loginReturned + Cardinality(loginInFlight) + 1,
             app |-> app, role |-> role]}
    /\ UNCHANGED <<localStorage, asyncStorage, loginReturned, loginReturn>>
    /\ UNCHANGED notLogin

\* The response to a call arrives and the call runs to its return.
loginUserReturns(call, response) ==
    /\ call \in loginInFlight
    /\ loginInFlight' = loginInFlight \ {call}
    /\ loginReturned' = loginReturned + 1
    /\ LET r == IF call.app = "web"
                THEN webLoginUser(call.role, response, localStorage)
                ELSE mobileLoginUser(call.role, response, asyncStorage)
       IN  /\ localStorage' =
                  IF call.app = "web" THEN r.storage ELSE localStorage
           /\ asyncStorage' =
                  IF call.app = "mobile" THEN r.storage ELSE asyncStorage
           /\ loginReturn' = [app |-> call.app, role |-> call.role,
                              response |-> response,
                              success |-> r.success, message |-> r.message]
    /\ UNCHANGED notLogin

NextLogin ==
    \/ \E app \in Apps, role \in LoginRoles : loginUserCall(app, role)
    \/ \E call \in loginInFlight, response \in LoginResponses :
          loginUserReturns(call, response)

SpecLogin == Init /\ [][NextLogin]_vars

\* A loginUser call returns in this step.
LoginUserReturnsNow == loginReturned' = loginReturned + 1

\* C21: a loginUser call that gets an error response from the server writes
\* nothing to token storage, so the stored token and role are those from
\* before the call, and it returns success = false with the detail message
\* of the server's response. Sending the request writes nothing either.
C21_ErrorResponseStoresNothing ==
    [][/\ loginInFlight' # loginInFlight /\ ~LoginUserReturnsNow =>
              /\ localStorage' = localStorage
              /\ asyncStorage' = asyncStorage
       /\ (LoginUserReturnsNow /\ loginReturn'.response.status = "error") =>
              /\ localStorage' = localStorage
              /\ asyncStorage' = asyncStorage
              /\ loginReturn'.success = FALSE
              /\ loginReturn'.response.detail # "" =>
                     loginReturn'.message = loginReturn'.response.detail]_vars

\* A mobile login as viewer succeeded and stored its token; a later login was
\* answered with the error detail "Invalid credentials": it returned that
\* message and the token of the first login is still the one stored.
C21_Witness ==
    /\ loginReturned = 2
    /\ loginReturn.app = "mobile"
    /\ loginReturn.response.status = "error"
    /\ ~loginReturn.success
    /\ loginReturn.message = "Invalid credentials"
    /\ asyncStorage["viewerToken"] = "token1"
    /\ asyncStorage["userToken"] = "token1"

\* The role-specific keys of AsyncStorage that hold a token.
StoredRoleKeys ==
    {k \in {"viewerToken", "securityToken", "adminToken"} :
        asyncStorage[k] # Null}

\* The mobile loginUser returns success in this step for a response that
\* carried an access token.
MobileLoginSucceedsNow ==
    /\ LoginUserReturnsNow
    /\ loginReturn'.app = "mobile"
    /\ loginReturn'.success
    /\ loginReturn'.response.access_token # Null

C22_FirstCallerOwnsForever ==
    [][/\ \A tx \in pending :
             Executes(tx) =>
                 /\ NewReceipt.reverted <=> isEvidenceRegistered[tx.hash]
                 /\ ~isEvidenceRegistered[tx.hash] =>
                        /\ isEvidenceRegistered'[tx.hash]
                        /\ registeredEvidence'[tx.hash].owner = tx.sender
       /\ \A h \in Hashes :
             isEvidenceRegistered[h] =>
                 registeredEvidence'[h].owner = registeredEvidence[h].owner]_vars

\* Every account has registered something, the all-zero hash was registered
\* with the empty metadata string, and a later call for it by the other
\* account was rejected and left the first caller the owner.
C22_Witness ==
    /\ isEvidenceRegistered[ZeroHash]
    /\ registeredEvidence[ZeroHash].metadata = ""
    /\ \E i \in SuccessFor(ZeroHash), j \in CallsFor(ZeroHash) :
          /\ i < j
          /\ receipts[j].reverted
          /\ receipts[j].sender # receipts[i].sender
          /\ registeredEvidence[ZeroHash].owner = receipts[i].sender
    /\ {receipts[i].sender : i \in Successes} = Accounts

\* --------------------------------------------------------------------- C23
\* C23: the blockNumber and the timestamp stored in the records never
\* decrease in acceptance order: if A was accepted before B then
\* A.blockNumber <= B.blockNumber and A.timestamp <= B.timestamp, each with
\* equality exactly when both were included in the same block.
C23_RecordsFollowBlocks ==
    \A i, j \in Successes :
        i < j =>
            LET A == registeredEvidence[receipts[i].hash]
                B == registeredEvidence[receipts[j].hash]
                sameBlock == receipts[i].blockNumber = receipts[j].blockNumber
            IN /\ A.blockNumber <= B.blockNumber
               /\ A.timestamp <= B.timestamp
               /\ (A.blockNumber = B.blockNumber) <=> sameBlock
               /\ (A.timestamp = B.timestamp) <=> sameBlock

\* Both hashes are registered, one in a later block than the other, and the
\* record accepted later holds the greater blockNumber and timestamp.
C23_Witness ==
    /\ Hashes = {receipts[i].hash : i \in Successes}
    /\ \E i, j \in Successes :
          /\ i < j
          /\ receipts[i].blockNumber < receipts[j].blockNumber
          /\ registeredEvidence[receipts[i].hash].timestamp
                 < registeredEvidence[receipts[j].hash].timestamp
          /\ registeredEvidence[receipts[i].hash].blockNumber
                 < registeredEvidence[receipts[j].hash].blockNumber
    /\ blockNumber > DeployBlock

\* --------------------------------------------------------------------- C24
\* C24: registerEvidence(h, m), whether it succeeds or fails, leaves the
\* stored record and the registered flag of every other hash unchanged.
C24_OtherHashesUntouched ==
    [][\A tx \in pending :
          Executes(tx) =>
              \A h \in Hashes \ {tx.hash} :
                  /\ registeredEvidence'[h] = registeredEvidence[h]
                  /\ isEvidenceRegistered'[h] = isEvidenceRegistered[h]]_vars

\* One hash is registered and the other is not, after a call for the
\* registered hash succeeded and a later one for it was rejected: neither
\* touched the other hash, which still has no record.
C24_Witness ==
    \E h \in Hashes :
        /\ SuccessFor(h) # {}
        /\ CallsFor(h) \ SuccessFor(h) # {}
        /\ \A g \in Hashes \ {h} :
              /\ CallsFor(g) = {}
              /\ ~isEvidenceRegistered[g]
              /\ registeredEvidence[g] = DefaultEvidence

\* --------------------------------------------------------------------- C30
\* C30: in every reachable state the two mappings agree: the record of a
\* registered hash h has evidenceHash h, and every field of the record of a
\* hash that is not registered has its default value.
C30_MappingsAgree ==
    \A h \in Hashes :
        /\ isEvidenceRegistered[h] => registeredEvidence[h].evidenceHash = h
        /\ ~isEvidenceRegistered[h] => registeredEvidence[h] = DefaultEvidence

\* The non-zero hash is registered and its record names it, while the
\* all-zero hash, for which no call has run, has the default record.
C30_Witness ==
    /\ isEvidenceRegistered[1]
    /\ registeredEvidence[1].evidenceHash = 1
    /\ registeredEvidence[1] # DefaultEvidence
    /\ ~isEvidenceRegistered[ZeroHash]
    /\ registeredEvidence[ZeroHash] = DefaultEvidence
    /\ Len(receipts) = MaxTxs

\* ==========================================================================
\* The incident WebSocket provider (IncidentProvider)
\* ==========================================================================
MAX_RETRIES == 10

\* Close codes a close event carries: normal closure, going away, and the
\* code of a connection that ended without a close frame.
CloseCodes == {1000, 1001, 1006}

\* A WebSocket just constructed. established tells whether the connection
\* was ever open; closeEvent is the code of the close event the browser has
\* queued for the socket (0: none queued) and errorEvent whether an error
\* event is fired before it.
NewSocket ==
    [readyState |-> "CONNECTING", established |-> FALSE, closeEvent |-> 0,
     errorEvent |-> FALSE]

\* A WebSocket whose close event has been dispatched.
ClosedSocket ==
    [readyState |-> "CLOSED", established |-> FALSE, closeEvent |-> 0,
     errorEvent |-> FALSE]

\* ws.current: the socket created last, 0 when none was created.
ws == Len(sockets)

\* WebSocket.close(): nothing for a socket that is closing or closed,
\* otherwise the socket starts closing (a connection not yet established is
\* failed).
close(socks, i) ==
    IF socks[i].readyState \in {"CLOSING", "CLOSED"}
    THEN socks
    ELSE [socks EXCEPT ![i].readyState = "CLOSING"]

\* Reconnect timers that are set and have neither fired nor been cleared.
PendingTimers ==
    strayTimers + (IF reconnectTimeout = "pending" THEN 1 ELSE 0)

\* A variant of the retry test that lets every abnormal close retry.
MayRetry_Always(code) == code # 1000

\* event.code !== 1000 && retryCount.current < MAX_RETRIES
MayRetry(code) == code # 1000 /\ retryCount < MAX_RETRIES

\* connectWebSocket(): the sockets after the call. Nothing when the current
\* socket is open, otherwise a new WebSocket becomes the current one.
connectWebSocket(socks) ==
    IF Len(socks) > 0 /\ socks[Len(socks)].readyState = "OPEN"
    THEN socks
    ELSE Append(socks, NewSocket)

\* connectWebSocket() would construct a WebSocket, and the bound allows it.
CanConnect(socks) == connectWebSocket(socks) = socks \/ Len(socks) < MaxSockets

\* The provider's effect runs: on mount, and once more after the cleanup
\* that React.StrictMode runs right after the first mount.
MountEffect ==
    /\ effect = "initial" \/ (effect = "cleaned" /\ effectRuns = 1)
    /\ CanConnect(sockets)
    /\ effect' = "mounted"
    /\ effectRuns' = effectRuns + 1
    /\ sockets' = connectWebSocket(sockets)
    /\ UNCHANGED <<reconnectTimeout, strayTimers, retryCount, isConnected>>
    /\ UNCHANGED notSocket

\* The effect's cleanup: close the current socket with code 1000 and clear
\* the timer the ref names.
Cleanup ==
    /\ effect = "mounted"
    /\ effect' = "cleaned"
    /\ sockets' = IF ws > 0 THEN close(sockets, ws) ELSE sockets
    /\ reconnectTimeout' =
           IF reconnectTimeout = "pending" THEN "cleared" ELSE reconnectTimeout
    /\ UNCHANGED <<effectRuns, strayTimers, retryCount, isConnected>>
    /\ UNCHANGED notSocket

\* The connection of socket i is established: the browser sets it OPEN and
\* runs onopen.
SocketOpens(i) ==
    /\ sockets[i].readyState = "CONNECTING"
    /\ sockets[i].closeEvent = 0
    /\ sockets' = [sockets EXCEPT ![i].readyState = "OPEN",
                                  ![i].established = TRUE]
    /\ isConnected' = TRUE
    /\ retryCount' = 0
    /\ reconnectTimeout' = "null"
    /\ UNCHANGED <<effect, effectRuns, strayTimers>>
    /\ UNCHANGED notSocket

\* The connection of socket i ends, by a close frame of the server or by
\* failure, and the browser queues the socket's close event.
ConnectionEnds(i, code, failed) ==
    /\ sockets[i].readyState # "CLOSED"
    /\ sockets[i].closeEvent = 0
    /\ code # 1006 => sockets[i].established /\ ~failed
    /\ sockets[i].readyState = "CONNECTING" => failed
    /\ sockets' = [sockets EXCEPT ![i].closeEvent = code,
                                  ![i].errorEvent = failed]
    /\ UNCHANGED <<effect, effectRuns, reconnectTimeout, strayTimers,
                   retryCount, isConnected>>
    /\ UNCHANGED notSocket

\* The queued close event of socket i is dispatched: the socket is CLOSED,
\* onerror runs when the connection failed (it closes the current socket),
\* then onclose runs and may schedule a reconnect.
DispatchClose(i) ==
    /\ sockets[i].closeEvent # 0
    /\ LET code == sockets[i].closeEvent
           closed == [sockets EXCEPT ![i] = ClosedSocket]
       IN  /\ sockets' = IF sockets[i].errorEvent THEN close(closed, ws)
                         ELSE closed
           /\ isConnected' = FALSE
           /\ IF MayRetry(code)
              THEN /\ retryCount' = retryCount + 1
                   /\ reconnectTimeout' = "pending"
                   /\ strayTimers' =
                          IF reconnectTimeout = "pending"
                          THEN strayTimers + 1 ELSE strayTimers
              ELSE UNCHANGED <<retryCount, reconnectTimeout, strayTimers>>
    /\ UNCHANGED <<effect, effectRuns>>
    /\ UNCHANGED notSocket

\* A reconnect timer fires and calls connectWebSocket; stray tells whether
\* it is a timer the ref no longer names.
ReconnectTimerFires(stray) ==
    /\ IF stray THEN strayTimers > 0 ELSE reconnectTimeout = "pending"
    /\ CanConnect(sockets)
    /\ strayTimers' = IF stray THEN strayTimers - 1 ELSE strayTimers
    /\ reconnectTimeout' = IF stray THEN reconnectTimeout ELSE "fired"
    /\ sockets' = connectWebSocket(sockets)
    /\ UNCHANGED <<effect, effectRuns, retryCount, isConnected>>
    /\ UNCHANGED notSocket

NextSocket ==
    \/ MountEffect
    \/ Cleanup
    \/ \E i \in 1..Len(sockets) : SocketOpens(i)
    \/ \E i \in 1..Len(sockets), code \in CloseCodes, failed \in BOOLEAN :
          ConnectionEnds(i, code, failed)
    \/ \E i \in 1..Len(sockets) : DispatchClose(i)
    \/ \E stray \in BOOLEAN : ReconnectTimerFires(stray)

SpecSocket == Init /\ [][NextSocket]_vars

\* Socket i goes from CONNECTING to OPEN in this step: onopen runs.
OpensNow(i) ==
    /\ sockets[i].readyState = "CONNECTING"
    /\ sockets'[i].readyState = "OPEN"

\* The close event of socket i is dispatched in this step: onclose runs.
ClosesNow(i) ==
    /\ sockets[i].closeEvent # 0
    /\ sockets'[i].closeEvent = 0

\* --------------------------------------------------------------------- C25
\* C25: after the provider's cleanup has run (the socket closed with code
\* 1000, the reconnect timer cleared) and until the effect runs again, no
\* new WebSocket is created and no reconnect timer is pending, in every
\* ordering of the cleanup with queued close and error events and with the
\* reconnect timer.
C25_NothingAfterCleanup ==
    /\ [](effect = "cleaned" => PendingTimers = 0)
    /\ [][(effect = "cleaned" /\ effect' = "cleaned") =>
              Len(sockets') = Len(sockets)]_vars

\* --------------------------------------------------------------------- C26
\* C26: connectWebSocket makes at most MAX_RETRIES (10) reconnect attempts
\* without a successful open in between: retryCount stays within 0..10,
\* every successful open resets it to 0 and nothing else lowers it, every
\* reconnect that is scheduled follows a close with a code other than 1000
\* and raises retryCount by one, a close with code 1000 schedules none, and
\* none is scheduled once retryCount has reached 10.
C26_BoundedReconnects ==
    /\ [](retryCount \in 0..MAX_RETRIES)
    /\ [][/\ \A i \in 1..Len(sockets) :
                /\ OpensNow(i) => retryCount' = 0
                /\ (ClosesNow(i) /\ sockets[i].closeEvent = 1000) =>
                       /\ PendingTimers' = PendingTimers
                       /\ retryCount' = retryCount
          /\ retryCount' < retryCount =>
                \E i \in 1..Len(sockets) : OpensNow(i)
          /\ PendingTimers' > PendingTimers =>
                /\ retryCount < MAX_RETRIES
                /\ retryCount' = retryCount + 1
                /\ PendingTimers' = PendingTimers + 1
                /\ \E i \in 1..Len(sockets) :
                      ClosesNow(i) /\ sockets[i].closeEvent # 1000
          /\ retryCount = MAX_RETRIES =>
                PendingTimers' <= PendingTimers]_vars

\* Ten reconnects in a row failed: retryCount is 10, the eleventh socket has
\* closed as well and no timer was set for it.
C26_Witness ==
    /\ retryCount = MAX_RETRIES
    /\ Len(sockets) = MAX_RETRIES + 1
    /\ \A i \in 1..Len(sockets) : sockets[i] = ClosedSocket
    /\ PendingTimers = 0
    /\ reconnectTimeout = "fired"
    /\ effect = "mounted"
    /\ effectRuns = 1

\* ==========================================================================
\* The web front end: AuthProvider (useAuth) and the router's PrivateRoute
\* ==========================================================================
\* Access tokens the server issues: three JWTs, one per role, and a token
\* that is not a JWT.
Jwts == {"jwt.admin", "jwt.security", "jwt.viewer"}
OpaqueToken == "opaque"
RefreshToken == "refresh"

\* useState(null) of the user.
NoUser == [null |-> TRUE]

\* decodeJwt: the claims of a JWT. It throws for a token that is not one.
Decodable(token) == token \in Jwts
decodeJwt(token) ==
    [sub |-> token,
     role |-> CASE token = "jwt.admin" -> "admin"
                [] token = "jwt.security" -> "security"
                [] OTHER -> "viewer"]

\* checkAuthStatus: the storage it leaves and the state it sets.
checkAuthStatus(storage) ==
    LET accessToken == storage["accessToken"]
        cleared == [storage EXCEPT !["accessToken"] = Null,
                                   !["refreshToken"] = Null]
    IN  IF accessToken = Null
        THEN [storage |-> storage, isAuthenticated |-> FALSE, user |-> NoUser]
        ELSE IF ~Decodable(accessToken)
        THEN [storage |-> cleared, isAuthenticated |-> FALSE, user |-> NoUser]
        ELSE IF accessToken \notin expired
        THEN [storage |-> storage, isAuthenticated |-> TRUE,
              user |-> [null |-> FALSE, id |-> decodeJwt(accessToken).sub,
                        role |-> decodeJwt(accessToken).role]]
        ELSE [storage |-> cleared, isAuthenticated |-> FALSE, user |-> NoUser]

\* The token the request interceptor attaches, Null when it attaches none.
interceptorToken(storage) == storage["userToken"]

\* The paths of the router and the ones wrapped in PrivateRoute.
Paths == {"/", "/login", "/dashboard", "/incidents", "/cameras", "/users"}
Protected == {"/dashboard", "/incidents", "/cameras", "/users"}

\* The roles prop of a route's PrivateRoute.
RouteRoles(path) ==
    CASE path = "/cameras" -> [given |-> TRUE, roles |-> {"admin", "security"}]
      [] path = "/users" -> [given |-> TRUE, roles |-> {"admin"}]
      [] OTHER -> [given |-> FALSE, roles |-> {}]

\* A PrivateRoute that checks the login only.
PrivateRoute_NoRoleCheck(roles, authenticated, u) ==
    IF ~authenticated THEN "/login" ELSE "children"

\* PrivateRoute: where it redirects, or "children" when it renders the page.
PrivateRoute(roles, authenticated, u) ==
    IF ~authenticated THEN "/login"
    ELSE IF roles.given /\ ~u.null /\ u.role \notin roles.roles
    THEN "/dashboard"
    ELSE "children"

\* The path shown after the route of path has rendered once.
Route(path, authenticated, u) ==
    IF path \notin Protected THEN path
    ELSE LET to == PrivateRoute(RouteRoles(path), authenticated, u)
         IN  IF to = "children" THEN path ELSE to

\* The path the router settles on: a redirect is rendered in turn.
Settle(path, authenticated, u) ==
    Route(Route(path, authenticated, u), authenticated, u)

\* The browser loads the app at path: the provider starts from its initial
\* state, requests of the page before are dropped, and the router renders.
PageLoad(path) ==
    /\ isAuthenticated' = FALSE
    /\ user' = NoUser
    /\ loading' = TRUE
    /\ loginPending' = FALSE
    /\ location' = Settle(path, FALSE, NoUser)
    /\ UNCHANGED <<localStorage, expired>>
    /\ UNCHANGED notAuth

\* The provider's effect runs checkAuthStatus after the mount.
AuthEffect ==
    /\ loading
    /\ LET r == checkAuthStatus(localStorage)
       IN  /\ localStorage' = r.storage
           /\ isAuthenticated' = r.isAuthenticated
           /\ user' = r.user
           /\ location' = Settle(location, r.isAuthenticated, r.user)
    /\ loading' = FALSE
    /\ UNCHANGED <<loginPending, expired>>
    /\ UNCHANGED notAuth

\* login(): the request is sent.
loginCall ==
    /\ ~loginPending
    /\ loginPending' = TRUE
    /\ UNCHANGED <<localStorage, isAuthenticated, user, loading, expired,
                   location>>
    /\ UNCHANGED notAuth

\* login(): the server answers with tokens; they are stored and
\* checkAuthStatus runs.
loginResolves(access_token) ==
    /\ loginPending
    /\ access_token \notin expired
    /\ loginPending' = FALSE
    /\ LET r == checkAuthStatus(
                    [localStorage EXCEPT !["accessToken"] = access_token,
                                         !["refreshToken"] = RefreshToken,
                                         !["userToken"] = access_token])
       IN  /\ localStorage' = r.storage
           /\ isAuthenticated' = r.isAuthenticated
           /\ user' = r.user
           /\ location' = Settle(location, r.isAuthenticated, r.user)
    /\ loading' = FALSE
    /\ UNCHANGED expired
    /\ UNCHANGED notAuth

\* login(): the request fails and the error is thrown to the caller.
loginRejects ==
    /\ loginPending
    /\ loginPending' = FALSE
    /\ UNCHANGED <<localStorage, isAuthenticated, user, loading, expired,
                   location>>
    /\ UNCHANGED notAuth

\* logout(): the tokens are removed, the state is reset and the browser is
\* sent to /login, which loads the app anew.
logout ==
    /\ localStorage' = [localStorage EXCEPT !["accessToken"] = Null,
                                            !["refreshToken"] = Null,
                                            !["userToken"] = Null]
    /\ isAuthenticated' = FALSE
    /\ user' = NoUser
    /\ loading' = TRUE
    /\ loginPending' = FALSE
    /\ location' = Settle("/login", FALSE, NoUser)
    /\ UNCHANGED expired
    /\ UNCHANGED notAuth

\* Time passes the exp of a token.
TokenExpires(token) ==
    /\ token \notin expired
    /\ expired' = expired \cup {token}
    /\ UNCHANGED <<localStorage, isAuthenticated, user, loading,
                   loginPending, location>>
    /\ UNCHANGED notAuth

\* The user follows a link to path inside the app.
Visit(path) ==
    /\ location' = Settle(path, isAuthenticated, user)
    /\ location' # location
    /\ UNCHANGED <<localStorage, isAuthenticated, user, loading,
                   loginPending, expired>>
    /\ UNCHANGED notAuth

NextAuth ==
    \/ \E path \in Paths : PageLoad(path)
    \/ AuthEffect
    \/ loginCall
    \/ \E token \in Jwts \cup {OpaqueToken} : loginResolves(token)
    \/ loginRejects
    \/ logout
    \/ \E token \in Jwts : TokenExpires(token)
    \/ \E path \in Paths : Visit(path)

SpecAuth == Init /\ [][NextAuth]_vars

\* The provider ends a session in this step: the stored access token is
\* removed, by logout or by checkAuthStatus.
SessionEndsNow ==
    /\ localStorage["accessToken"] # Null
    /\ localStorage'["accessToken"] = Null

\* --------------------------------------------------------------------- C27
\* C27: whenever the AuthProvider ends a session, by logout or because
\* checkAuthStatus finds the stored access token expired or undecodable,
\* isAuthenticated is false, user is null and localStorage holds no token
\* that the API request interceptor would attach.
C27_SessionEndLeavesNoToken ==
    [][SessionEndsNow =>
           /\ ~isAuthenticated'
           /\ user' = NoUser
           /\ interceptorToken(localStorage') = Null]_vars

====
